---- MODULE Spec2Model ----
(***************************************************************************)
(* ColorFall: a 5-band dynamics / saturation / reactive-EQ audio plugin.   *)
(* State machine of ColorFall (src/src/lib.rs) and of the DSP primitives   *)
(* it calls (src/src/dsp.rs).                                              *)
(*                                                                         *)
(* Numbers.  The program computes in f32.  The model computes in fixed     *)
(* point, one integer scale per kind of quantity:                          *)
(*   samples, filter memory        units of 1/SS   (SS = 1000)             *)
(*   power, envelopes, trackers    units of 1/PS   (PS = SS*SS)            *)
(*   gains, parameters, coefs      units of 1/GS   (GS = 10000)            *)
(*   envelope coefficients alpha   units of 1/PS                           *)
(*   decibels                      units of 1/DBS  (DBS = 100)             *)
(*   frequencies, sample rate      Hz                                      *)
(* Every product is rounded to nearest, ties away from zero (RDiv), which  *)
(* is sign-symmetric like IEEE rounding.  The transcendental functions are *)
(* computed by range reduction and polynomials, exact at the points the    *)
(* program relies on (10^0 = 1, log10(1) = 0, 2^0 = 1, x^1.5 at 0 and 1).  *)
(***************************************************************************)
EXTENDS Integers, Sequences, FiniteSets, TLC

\* ------------------------------------------------------------------ scales

SS == 1000
GS == 10000
DBS == 100
PS == SS * SS

\* ------------------------------------------------------- integer arithmetic

Abs(x) == IF x < 0 THEN -x ELSE x

Sign(x) == IF x < 0 THEN -1 ELSE IF x > 0 THEN 1 ELSE 0

Min(a, b) == IF a < b THEN a ELSE b

Max(a, b) == IF a > b THEN a ELSE b

\* f32::clamp
Clamp(x, lo, hi) == IF x < lo THEN lo ELSE IF x > hi THEN hi ELSE x

\* a / b for b > 0, rounded to nearest, ties away from zero.
RDiv(a, b) == IF a >= 0 THEN (a + (b \div 2)) \div b ELSE -((-a + (b \div 2)) \div b)

\* The product of two numbers of which b is in units of 1/s.
Mul(a, b, s) == RDiv(a * b, s)

\* a * b / PS for |a|, |b| <= 2*PS, exact to the last unit: the product is
\* formed in parts of three decimal digits so that no part leaves 32 bits.
MulPS(a, b) ==
    LET sg == Sign(a) * Sign(b)
        x  == Abs(a)
        y  == Abs(b)
        xh == x \div SS
        xl == x % SS
        yh == y \div SS
        yl == y % SS
        mid == xh * yl + xl * yh
    IN  sg * (xh * yh + RDiv((mid % SS) * SS + xl * yl, PS) + (mid \div SS))

Pow2Int(n) == 2 ^ n

RECURSIVE SqrtIter(_, _)
SqrtIter(n, x) ==
    LET y == (x + (n \div x)) \div 2
    IN  IF y >= x THEN x ELSE SqrtIter(n, y)

\* floor(sqrt(n)) for 0 <= n < 2^31, by Newton's iteration from above.
ISqrt(n) == IF n <= 0 THEN 0 ELSE SqrtIter(n, Min(n, 46341))

\* sqrt(n) rounded to nearest.
RSqrt(n) == LET r == ISqrt(n) IN IF n - r * r > r THEN r + 1 ELSE r

\* f32::sqrt of a number in units of 1/GS.
SqrtG(x) == RSqrt(x * GS)

\* --------------------------------------------------- f32 library functions

\* 2^(f/GS) for 0 <= f < GS: the series of exp(f ln 2) by Horner's rule; the
\* coefficients (ln 2)^k / k! sum to 2.
Pow2Frac(f) ==
    LET c6 == 3
        c5 == 13 + Mul(f, c6, GS)
        c4 == 96 + Mul(f, c5, GS)
        c3 == 555 + Mul(f, c4, GS)
        c2 == 2402 + Mul(f, c3, GS)
        c1 == 6931 + Mul(f, c2, GS)
    IN  GS + Mul(f, c1, GS)

\* 2^(y/GS) in units of 1/GS.  A positive result is never rounded to zero:
\* f32 holds every value the program forms here as a normal number.
Pow2G(y) ==
    LET n == y \div GS
        p == Pow2Frac(y - n * GS)
    IN  IF n >= 0 THEN p * Pow2Int(n)
        ELSE IF n < -30 THEN 1
        ELSE Max(1, RDiv(p, Pow2Int(-n)))

\* nih_plug util::MINUS_INFINITY_DB, in units of 1/DBS.
MINUS_INFINITY_DB == -100 * DBS

\* nih_plug util::db_to_gain: 10^(dbs/20), and 0 at or below -100 dB.
\* dbs is in units of 1/DBS, the result in units of 1/GS.
db_to_gain(dbs) ==
    IF dbs > MINUS_INFINITY_DB THEN Pow2G(RDiv(dbs * 16610, 1000)) ELSE 0

RECURSIVE Log2Up(_, _, _)
Log2Up(x, s, k) == IF (x \div Pow2Int(k + 1)) >= s THEN Log2Up(x, s, k + 1) ELSE k

RECURSIVE Log2Down(_, _, _)
Log2Down(x, s, k) == IF x * Pow2Int(-k) >= s THEN k ELSE Log2Down(x, s, k - 1)

RECURSIVE Log2Bits(_, _, _)
Log2Bits(m, i, acc) ==
    IF i = 0 THEN acc
    ELSE LET sq == (m * m) \div 16384
         IN  IF sq >= 32768 THEN Log2Bits(sq \div 2, i - 1, 2 * acc + 1)
             ELSE Log2Bits(sq, i - 1, 2 * acc)

\* log2(x/s) in units of 1/1024, for x > 0: the exponent k with
\* s*2^k <= x < s*2^(k+1), then ten bits of the mantissa's logarithm by
\* repeated squaring.
Log2Fix(x, s) ==
    LET k == IF x >= s THEN Log2Up(x, s, 0) ELSE Log2Down(x, s, -1)
        m == IF k <= 14 THEN (x * Pow2Int(14 - k)) \div s
             ELSE ((x \div Pow2Int(k - 14)) * 1) \div s
    IN  k * 1024 + Log2Bits(m, 10, 0)

\* nih_plug util::gain_to_db: 20*log10(max(gain, 1e-5)).  gain is in units
\* of 1/s; one unit is above 1e-5, so only gain <= 0 is floored to -100 dB.
gain_to_db(gain, s) ==
    IF gain <= 0 THEN MINUS_INFINITY_DB
    ELSE Max(MINUS_INFINITY_DB, RDiv(Log2Fix(gain, s) * 60206, 102400))

\* std::f32::consts::PI and FRAC_PI_2, in units of 1/GS.
PI == 31416
FRAC_PI_2 == 15708

\* cos and sin on [0, pi/2] by their Taylor series (Horner in x^2).
CosSmall(x) ==
    LET z  == Mul(x, x, GS)
        u4 == GS - RDiv(z, 90)
        u3 == GS - RDiv(Mul(z, u4, GS), 56)
        u2 == GS - RDiv(Mul(z, u3, GS), 30)
        u1 == GS - RDiv(Mul(z, u2, GS), 12)
    IN  GS - RDiv(Mul(z, u1, GS), 2)

SinSmall(x) ==
    LET z  == Mul(x, x, GS)
        u4 == GS - RDiv(z, 72)
        u3 == GS - RDiv(Mul(z, u4, GS), 42)
        u2 == GS - RDiv(Mul(z, u3, GS), 20)
        u1 == GS - RDiv(Mul(z, u2, GS), 6)
    IN  Mul(x, u1, GS)

\* f32::cos and f32::sin for 0 <= w <= PI.
Cos(w) == IF w <= FRAC_PI_2 THEN Max(0, CosSmall(w)) ELSE -Max(0, CosSmall(PI - w))

Sin(w) == IF w <= FRAC_PI_2 THEN SinSmall(w) ELSE SinSmall(PI - w)

\* f32::powf(x, 1.5), powf(x, 2.5), powf(x, 0.75), powf(x, 0.5) for x >= 0.
Pow15(x) == Mul(x, SqrtG(x), GS)

Pow25(x) == Mul(Mul(x, x, GS), SqrtG(x), GS)

Pow075(x) == Mul(SqrtG(x), SqrtG(SqrtG(x)), GS)

\* 1 - exp(-1/n) in units of 1/PS, for a time constant of n >= 1 samples:
\* the series 1/n - 1/(2 n^2) + 1/(6 n^3).
OneMinusExpNegInv(n) ==
    LET t1 == RDiv(PS, n)
        t2 == IF n > 30000 THEN 0 ELSE RDiv(PS, 2 * n * n)
        t3 == IF n > 500 THEN 0 ELSE RDiv(PS, 6 * n * n * n)
    IN  t1 - t2 + t3

\* a * b / GS for b of any size: b is split so no product leaves 32 bits.
MulG(a, b) ==
    LET y == Abs(b) IN Sign(b) * (a * (y \div GS) + Mul(a, y % GS, GS))

\* ----------------------------------------------------------------- values
\* A sample on the wet path is a pair <<v, e>>: v in units of 1/SS, and e the
\* part at the scale of the 1.0e-20 denormal guard (units of 1.0e-20/SS),
\* which f32 keeps only while the main part is exactly zero and absorbs
\* (rounds away) in any sum with a nonzero main part.

Zero == <<0, 0>>

Val(v) == <<v, 0>>

\* f32 addition and subtraction.
FAdd(x, y) == LET v == x[1] + y[1] IN IF v # 0 THEN <<v, 0>> ELSE <<0, x[2] + y[2]>>

FSub(x, y) == LET v == x[1] - y[1] IN IF v # 0 THEN <<v, 0>> ELSE <<0, x[2] - y[2]>>

\* f32 product of a gain or coefficient c (units of 1/GS) and a sample.
FScale(c, x) == <<MulG(x[1], c), MulG(x[2], c)>>

\* ------------------------------------------------------------ dsp.rs: constants

TILT_MAX_SHIFT_SEMITONES == 4
MAX_BANDS == 5
MAX_COMPENSATION_DB == 6 * DBS
KNEE_MAX_DB == 8 * DBS

Bands == 0 .. (MAX_BANDS - 1)

Crossovers == 0 .. (MAX_BANDS - 2)

\* ------------------------------------------------------- dsp.rs: functions

\* shift_frequency: base_freq * 2^(tilt * 4 / 12), in Hz.
shift_frequency(base_freq, tilt) ==
    LET shift == tilt * TILT_MAX_SHIFT_SEMITONES
    IN  RDiv(base_freq * Pow2G(RDiv(shift, 12)), GS)

\* std::f32::consts::FRAC_1_SQRT_2, in units of 1/GS.
FRAC_1_SQRT_2 == 7071

\* 2*pi*freq/sample_rate, in units of 1/GS.
Omega(sample_rate, freq) == RDiv(2 * PI * freq, sample_rate)

\* The coefficients divided by d = a0, as both calculate_* functions do.
Normalised(b0, b1, b2, a0, a1, a2) ==
    [b0 |-> RDiv(b0 * GS, a0), b1 |-> RDiv(b1 * GS, a0), b2 |-> RDiv(b2 * GS, a0),
     a1 |-> RDiv(a1 * GS, a0), a2 |-> RDiv(a2 * GS, a0)]

\* calculate_lr_lowpass from cos_w0 and alpha on.
LowpassOf(cos_w0, alpha) ==
    Normalised(RDiv(GS - cos_w0, 2), GS - cos_w0, RDiv(GS - cos_w0, 2),
               GS + alpha, -2 * cos_w0, GS - alpha)

\* BiquadCoefficients::calculate_lr_lowpass.
calculate_lr_lowpass(sample_rate, cutoff_freq) ==
    LET w0 == Omega(sample_rate, cutoff_freq)
        q  == FRAC_1_SQRT_2
    IN  LowpassOf(Cos(w0), RDiv(Sin(w0) * GS, 2 * q))

\* calculate_peaking from a, cos_w0 and alpha on.
PeakingOf(a, cos_w0, alpha) ==
    Normalised(GS + MulG(alpha, a), -2 * cos_w0, GS - MulG(alpha, a),
               GS + RDiv(alpha * GS, a), -2 * cos_w0, GS - RDiv(alpha * GS, a))

\* BiquadCoefficients::calculate_peaking.  q is in units of 1/GS, gain_db in
\* units of 1/DBS.  The 1e-9 added to a0 >= 1 is below half an ulp of a0 in
\* f32, so d = a0.
calculate_peaking(sample_rate, freq, q, gain_db) ==
    LET w0 == Omega(sample_rate, freq)
    IN  PeakingOf(db_to_gain(gain_db), Cos(w0), RDiv(Sin(w0) * GS, 2 * q))

\* BiquadCoefficients::default and BiquadState::default.
DefaultCoefficients == [b0 |-> 0, b1 |-> 0, b2 |-> 0, a1 |-> 0, a2 |-> 0]

DefaultBiquadState == [z1 |-> Zero, z2 |-> Zero]

\* Biquad::default.
DefaultBiquad ==
    [coefs |-> DefaultCoefficients, state_l |-> DefaultBiquadState,
     state_r |-> DefaultBiquadState]

\* One channel of Biquad::process from out on: the new z1 and z2.
ChannelState(c, st, sample, out) ==
    [out |-> out,
     st  |-> [z1 |-> FAdd(FSub(FScale(c.b1, sample), FScale(c.a1, out)), st.z2),
              z2 |-> FSub(FScale(c.b2, sample), FScale(c.a2, out))]]

\* One channel of Biquad::process: direct form 2 transposed.
ProcessChannel(c, st, sample) ==
    ChannelState(c, st, sample, FAdd(FScale(c.b0, sample), st.z1))

\* The filter and the outputs, given what each channel computed.
BiquadResult(self, l, r) ==
    [self |-> [self EXCEPT !.state_l = l.st, !.state_r = r.st],
     out_l |-> l.out, out_r |-> r.out]

\* Biquad::process: the filter after the call, and the two outputs.
Biquad_process(self, sample_l, sample_r) ==
    BiquadResult(self, ProcessChannel(self.coefs, self.state_l, sample_l),
                       ProcessChannel(self.coefs, self.state_r, sample_r))

\* Biquad::update_lr_lowpass, update_peaking, reset.
update_lr_lowpass(self, sample_rate, cutoff_freq) ==
    [self EXCEPT !.coefs = calculate_lr_lowpass(sample_rate, cutoff_freq)]

update_peaking(self, sample_rate, freq, q, gain_db) ==
    [self EXCEPT !.coefs = calculate_peaking(sample_rate, freq, q, gain_db)]

\* A reset that gives a new filter: state and coefficients both dropped.
Biquad_renew(self) == DefaultBiquad

Biquad_reset(self) ==
    [self EXCEPT !.state_l = DefaultBiquadState, !.state_r = DefaultBiquadState]

\* A waveshaper with a square where saturate has the cube.
WaveshapeSquare(drive, sample, amount) ==
    LET square == Mul(sample, sample, SS)
        out    == Mul(drive, sample, GS) - Mul(RDiv(Mul(drive, drive, GS), 3), square, GS)
    IN  Clamp(Mul(out, GS - Mul(amount, 3000, GS), GS), -SS, SS)

\* saturate from drive on: the cubic waveshaper and the final clamp.
Waveshape(drive, sample, amount) ==
    LET cube == Mul(Mul(sample, sample, SS), sample, SS)
        out  == Mul(drive, sample, GS) - Mul(RDiv(Mul(drive, drive, GS), 3), cube, GS)
    IN  Clamp(Mul(out, GS - Mul(amount, 3000, GS), GS), -SS, SS)

\* A saturator that passes the sample through.
saturate_bypass(sample, amount) == sample

\* A saturator whose drive rises linearly with amount.
saturate_linear_drive(sample, amount) ==
    Waveshape(Mul(amount, 9000, GS) + 1000, sample, amount)

\* saturate: sample in units of 1/SS, amount in units of 1/GS.
saturate(sample, amount) ==
    Waveshape(Mul(Pow15(amount), 9000, GS) + 1000, sample, amount)

\* calculate_target_gr, step 1: tilt_bias, freq_factor, threshold, ratio, knee.
TiltEffect(tilt) == Pow15(Abs(tilt)) * Sign(tilt)

TiltBias(band_idx, tilt) ==
    Clamp(CASE band_idx \in {0, 1} -> GS + Mul(TiltEffect(tilt), -8000, GS)
            [] band_idx = 2 -> GS
            [] band_idx \in {3, 4} -> GS + Mul(TiltEffect(tilt), 8000, GS)
            [] OTHER -> GS,
          2000, 18000)

FreqFactor(band_idx) ==
    CASE band_idx = 0 -> 15000
      [] band_idx = 1 -> 12000
      [] band_idx = 2 -> 10000
      [] band_idx = 3 -> 8000
      [] band_idx = 4 -> 5000
      [] OTHER -> 10000

Intensity(band_idx, amount, tilt) ==
    Mul(Mul(amount, TiltBias(band_idx, tilt), GS), FreqFactor(band_idx), GS)

\* threshold_db in units of 1/DBS; (band_idx/4 - 0.5) is (25*band_idx - 50)/100.
ThresholdDb(band_idx, amount, tilt) ==
    -10 * DBS - Mul(25 * DBS, Intensity(band_idx, amount, tilt), GS)
        - RDiv(tilt * (-5) * (25 * band_idx - 50), GS)

Ratio(amount) == 11000 + 15 * Pow25(amount)

\* 1 - 1/ratio
Slope(amount) == GS - RDiv(GS * GS, Ratio(amount))

KneeDb(amount) == Mul(KNEE_MAX_DB, Pow15(amount), GS)

\* calculate_target_gr, step 2: gr_db of the gain computer, as [nan, v].  In
\* the knee branch with knee_db = 0 the code divides 0.0 by 0.0: NaN.
GainComputer(threshold_db, knee_db, slope, input_db) ==
    IF 2 * input_db < 2 * threshold_db - knee_db
    THEN [nan |-> FALSE, v |-> 0]
    ELSE IF 2 * input_db > 2 * threshold_db + knee_db
    THEN [nan |-> FALSE, v |-> Mul(threshold_db - input_db, slope, GS)]
    ELSE LET knee_range == knee_db
             x == RDiv(2 * input_db - (2 * threshold_db - knee_range), 2)
         IN  IF knee_range = 0
             THEN [nan |-> TRUE, v |-> 0]
             ELSE [nan |-> FALSE,
                   v |-> -RDiv(slope * RDiv(x * x * 10, 2 * knee_range), 10 * GS)]

GrDb(band_idx, amount, tilt, envelope) ==
    GainComputer(ThresholdDb(band_idx, amount, tilt), KneeDb(amount), Slope(amount),
                 gain_to_db(envelope, SS))

\* A min that takes a NaN for the lowest level there is.
FMinOfNaN(g, other) == IF g.nan THEN MINUS_INFINITY_DB ELSE Min(g.v, other)

\* f32::min(self, other): the other operand when self is NaN.
FMin(g, other) == IF g.nan THEN other ELSE Min(g.v, other)

\* A target that adds the decibels calculate_target_gr takes off.
calculate_target_gain(band_idx, amount, tilt, envelope) ==
    db_to_gain(-GrDb(band_idx, amount, tilt, envelope).v)

\* calculate_target_gr: the target factor in units of 1/GS; envelope is the
\* detector level in units of 1/SS.
calculate_target_gr(band_idx, amount, tilt, envelope) ==
    db_to_gain(FMin(GrDb(band_idx, amount, tilt, envelope), 0))

\* calculate_dynamic_time_constants from the two scales on.
TimeConstantsOf(sample_rate, freq_scale, amount_scale) ==
    LET attack_ms    == RDiv(20 * amount_scale * GS, SqrtG(freq_scale))
        release_ms   == 300 * RDiv(amount_scale * GS, Pow15(freq_scale))
        attack_samples  == RDiv((sample_rate \div 100) * RDiv(attack_ms, 100), 1000)
        release_samples == RDiv((sample_rate \div 100) * RDiv(release_ms, 100), 1000)
    IN  <<attack_samples, release_samples>>

\* calculate_dynamic_time_constants: <<attack, release>> in samples.  The
\* sample rate is a multiple of 100 Hz.
calculate_dynamic_time_constants(sample_rate, band_center_freq, band_idx, amount) ==
    TimeConstantsOf(sample_rate,
                    Clamp(RSqrt(band_center_freq * 50000), 5000, 20000),
                    GS - Mul(Pow075(amount), 8000, GS))

\* ------------------------------------------------ nih_plug Smoother<f32>
\* The fields of a Smoother with SmoothingStyle::Exponential(ms): target and
\* current in the units of the smoothed quantity, step_size in units of 1/GS.

\* Smoother::new(SmoothingStyle::Exponential(ms))
Smoother_new(ms) ==
    [ms |-> ms, target |-> 0, current |-> 0, steps_left |-> 0, step_size |-> 0]

\* Smoother::reset(value)
Smoother_reset(self, value) ==
    [self EXCEPT !.target = value, !.current = value, !.steps_left = 0]

\* SmoothingStyle::num_steps: (sample_rate * ms / 1000).round()
num_steps(ms, sample_rate) == RDiv(sample_rate * ms, 1000)

\* SmoothingStyle::step_size for Exponential: 0.0001^(1/num_steps);
\* log2(0.0001) = -13.2877.
step_size(n) == Pow2G(-RDiv(132877, n))

\* Smoother::set_target(sample_rate, target)
Smoother_set_target(self, sample_rate, target) ==
    LET n == num_steps(self.ms, sample_rate)
    IN  [self EXCEPT !.target = target, !.steps_left = n,
                     !.step_size = IF n > 0 THEN step_size(n) ELSE 0]

\* The smoother with its new current value, and that value.
Stepped(self, new) ==
    [self |-> [self EXCEPT !.current = new, !.steps_left = self.steps_left - 1],
     value |-> new]

\* Smoother::next: the smoother after the call and the value returned.  The
\* exponential step is current*step_size + target*(1 - step_size), and the
\* last step snaps to the target.
Smoother_next(self) ==
    IF self.steps_left > 0
    THEN Stepped(self, IF self.steps_left = 1 THEN self.target
                       ELSE MulG(self.step_size, self.current)
                            + MulG(GS - self.step_size, self.target))
    ELSE [self |-> self, value |-> self.target]

\* ------------------------------------------------ dsp.rs: ProcessingBand

\* ProcessingBand::default
DefaultProcessingBand ==
    [compensation_eq |-> DefaultBiquad, envelope_l |-> 0, envelope_r |-> 0,
     applied_gr_smoother_l |-> Smoother_new(1), applied_gr_smoother_r |-> Smoother_new(1)]

\* A reset that leaves the band as it is.
ProcessingBand_keep(self) == self

\* ProcessingBand::reset
ProcessingBand_reset(self) ==
    [self EXCEPT !.compensation_eq = Biquad_reset(self.compensation_eq),
                 !.envelope_l = 0, !.envelope_r = 0,
                 !.applied_gr_smoother_l = Smoother_reset(self.applied_gr_smoother_l, GS),
                 !.applied_gr_smoother_r = Smoother_reset(self.applied_gr_smoother_r, GS)]

\* ------------------------------------------------------ lib.rs: ColorFall

\* BASE_CROSSOVER_FREQS, in Hz.
BASE_CROSSOVER_FREQS == <<150, 800, 4000, 9000>>

\* The value reset() gives the RMS trackers and process() compares them
\* with: 1.0e-6, one unit of 1/PS.
RMS_EPSILON == 1

\* The denormal guard 1.0e-20 added to the wet sum.
DENORMAL_GUARD == <<0, SS>>

\* ------------------------------------------------------------ model bounds

\* Calls of process() in one behaviour of Spec.
MaxCalls == 2

\* Samples per channel in a block.
MaxBlockLen == 3

\* The grids of arguments the functions under test are applied to: samples
\* in steps of 0.5 up to +-MaxSampleSteps/2, Amount in AmountSteps equal
\* steps of [0,1], Tilt in TiltSteps equal steps of each half of [-1,1],
\* envelopes 0 and 4^k/1000 up to k = MaxEnvelopePow.
MaxSampleSteps == 16

AmountSteps == 2

TiltSteps == 1

MaxEnvelopePow == 8

\* Envelopes one behaviour of SpecTargetGr feeds to a band's smoother.
MaxProbeSteps == 2

\* Calls of process() on the steady signal before the plugin is recorded.
SettleCalls == 1800

\* Calls of process() in one behaviour of SpecMeter.
MaxMeterCalls == 5

\* Calls made on the filter in one behaviour of SpecBiquad.
MaxBiquadSteps == 3

\* The highest detector level, in units of 1/SS, the gain computer is probed at.
MaxKneeEnvelope == 450

SampleGrid == { 500 * k : k \in -MaxSampleSteps .. MaxSampleSteps }

AmountGrid == { (GS * k) \div AmountSteps : k \in 0 .. AmountSteps }

TiltGrid == { (GS * k) \div TiltSteps : k \in -TiltSteps .. TiltSteps }

EnvelopeGrid == {0} \cup { 4 ^ k : k \in 0 .. MaxEnvelopePow }

\* Sample rates the host may initialize the plugin with, in Hz.
SampleRates == {44100, 48000}

\* The host's buffer for a pattern: channel -> sequence of samples.  A
\* pattern gives the first two samples of channel 0 and of channel 1; later
\* samples of a channel repeat its second.
BlockOf(pat, len) ==
    [ch \in 0 .. 1 |->
        [j \in 1 .. len |-> Val(IF j = 1 THEN pat[2 * ch + 1] ELSE pat[2 * ch + 2])]]

Silence == <<0, 0, 0, 0>>
Quiet == <<1000, -500, -1000, 250>>
Loud == <<4000, 4000, -4000, 1000>>

\* Parameter values of one block, as the parameter smoothers deliver them:
\* amount, tilt, mix in units of 1/GS, output in units of 1/DBS; tilt_value
\* is the unsmoothed params.tilt.value() read at the start of the block.
Params(amount, tilt, tilt_value, mix, output) ==
    [amount |-> amount, tilt |-> tilt, tilt_value |-> tilt_value, mix |-> mix,
     output |-> output]

\* The parameter values of a block the host may present.
ParamSets ==
    { Params(0, 0, 0, GS, 0),
      Params(GS, -GS, -GS, 5000, -24 * DBS),
      Params(5000, GS, 0, 0, 24 * DBS) }

\* The buffers the host may present: silence, a quiet and a loud signal, and
\* a block of a single sample.
Blocks ==
    { BlockOf(Silence, 2), BlockOf(Quiet, MaxBlockLen), BlockOf(Loud, 2), BlockOf(Quiet, 1) }

\* ------------------------------------------------------------------ state

VARIABLES
    sample_rate,                   \* ColorFall.sample_rate
    crossovers,                    \* ColorFall.crossovers: [Biquad; 4]
    bands,                         \* ColorFall.bands: [ProcessingBand; 5]
    dry_rms_tracker,               \* ColorFall.dry_rms_tracker
    wet_rms_tracker,               \* ColorFall.wet_rms_tracker
    loudness_correction_smoother,  \* ColorFall.loudness_correction_smoother
    gr_meter_smoother,             \* ColorFall.gr_meter_smoother
    gain_reduction_meter,          \* ColorFall.gain_reduction_meter (atomic)
    editor_open,                   \* params.editor_state.is_open()
    peak_meter,                    \* the value the editor's PeakMeter last loaded
    initialized,                   \* the host has called initialize()
    pc,                            \* "idle", "loop" (inside process), "panicked"
    calls,                         \* calls of process() so far, up to MaxCalls
    last_call,                     \* the last host call that returned
    params,                        \* the parameter values of the current block
    buffer,                        \* the host's buffer, processed in place
    iter,                          \* iterations of the sample loop done
    block_avg_input,               \* locals of process()
    block_avg_output,
    total_gr_db,
    required_correction,
    gr_factors_l,
    gr_factors_r,
    band_signals_l,
    band_signals_r,
    dry_l,                         \* the dry pair of the last iteration
    dry_r,
    wet_sum,                       \* the wet pair before the compensation EQ
    probe                          \* a function under test: arguments and result

plugin == <<sample_rate, crossovers, bands, dry_rms_tracker, wet_rms_tracker,
            loudness_correction_smoother, gr_meter_smoother, gain_reduction_meter>>

locals == <<params, buffer, iter, block_avg_input, block_avg_output, total_gr_db,
            required_correction, gr_factors_l, gr_factors_r, band_signals_l,
            band_signals_r, dry_l, dry_r, wet_sum>>

vars == <<plugin, editor_open, peak_meter, initialized, pc, calls, last_call, locals, probe>>

\* No function is under test.
NoProbe == [fn |-> "none"]

\* ColorFall::default: the state after construction.
Default ==
    /\ sample_rate = 44100
    /\ crossovers = [j \in Crossovers |-> DefaultBiquad]
    /\ bands = [i \in Bands |-> DefaultProcessingBand]
    /\ dry_rms_tracker = 0
    /\ wet_rms_tracker = 0
    /\ loudness_correction_smoother = Smoother_new(200)
    /\ gr_meter_smoother = Smoother_new(50)
    /\ gain_reduction_meter = 0
    /\ editor_open = FALSE
    /\ peak_meter = 0
    /\ initialized = FALSE
    /\ pc = "idle"
    /\ calls = 0
    /\ last_call = "new"
    /\ buffer = BlockOf(Silence, 1)
    /\ iter = 0
    /\ block_avg_input = 0
    /\ block_avg_output = 0
    /\ total_gr_db = 0
    /\ required_correction = GS
    /\ gr_factors_l = [i \in Bands |-> GS]
    /\ gr_factors_r = [i \in Bands |-> GS]
    /\ band_signals_l = [i \in Bands |-> 0]
    /\ band_signals_r = [i \in Bands |-> 0]
    /\ dry_l = 0
    /\ dry_r = 0
    /\ wet_sum = <<Zero, Zero>>

Init == Default /\ params = Params(0, 0, 0, GS, 0) /\ probe = NoProbe

\* ----------------------------------------------------------- reset, initialize

\* The fields reset() assigns (lib.rs 220-234), as a record.
ResetFields(xo, bs, lcs, gms) ==
    [crossovers |-> [j \in Crossovers |-> Biquad_reset(xo[j])],
     bands |-> [i \in Bands |-> ProcessingBand_reset(bs[i])],
     loudness_correction_smoother |-> Smoother_reset(lcs, GS),
     gr_meter_smoother |-> Smoother_reset(gms, 0),
     dry_rms_tracker |-> RMS_EPSILON,
     wet_rms_tracker |-> RMS_EPSILON]

\* What reset() does to the plugin.
DoReset ==
    LET r == ResetFields(crossovers, bands, loudness_correction_smoother, gr_meter_smoother)
    IN  /\ crossovers' = r.crossovers
        /\ bands' = r.bands
        /\ loudness_correction_smoother' = r.loudness_correction_smoother
        /\ gr_meter_smoother' = r.gr_meter_smoother
        /\ dry_rms_tracker' = r.dry_rms_tracker
        /\ wet_rms_tracker' = r.wet_rms_tracker
        /\ UNCHANGED gain_reduction_meter

\* Plugin::reset.  The host calls it between process() calls, once the plugin
\* is initialized.
Reset ==
    /\ pc = "idle"
    /\ initialized
    /\ DoReset
    /\ last_call' = "reset"
    /\ UNCHANGED <<sample_rate, editor_open, peak_meter, initialized, pc, calls, locals, probe>>

\* An initialize that sets the sample rate and resets nothing.
InitializeRateOnly(rate) ==
    /\ pc = "idle"
    /\ sample_rate' = rate
    /\ initialized' = TRUE
    /\ last_call' = "initialize"
    /\ UNCHANGED <<crossovers, bands, dry_rms_tracker, wet_rms_tracker,
                   loudness_correction_smoother, gr_meter_smoother, gain_reduction_meter,
                   editor_open, peak_meter, pc, calls, locals, probe>>

\* Plugin::initialize with buffer_config.sample_rate = rate.
Initialize(rate) ==
    /\ pc = "idle"
    /\ sample_rate' = rate
    /\ DoReset
    /\ initialized' = TRUE
    /\ last_call' = "initialize"
    /\ UNCHANGED <<editor_open, peak_meter, pc, calls, locals, probe>>

\* The user opens or closes the editor window.
ToggleEditor ==
    /\ pc = "idle"
    /\ editor_open' = ~editor_open
    /\ UNCHANGED <<plugin, peak_meter, initialized, pc, calls, last_call, locals, probe>>

\* ------------------------------------------------------------ process()

\* A block update that leaves the 4 lowpasses as they are.
keep_crossover_filters(xo, rate, tilt) == xo

\* update_crossover_filters(tilt): new coefficients for the 4 lowpasses.
update_crossover_filters(xo, rate, tilt) ==
    [j \in Crossovers |->
        update_lr_lowpass(xo[j], rate, shift_frequency(BASE_CROSSOVER_FREQS[j + 1], tilt))]

\* A correction of dry/wet, without the square root.
RatioCorrection(dry, wet) ==
    IF wet > RMS_EPSILON /\ dry > RMS_EPSILON THEN RDiv(dry * 100, wet) * 100 ELSE GS

\* lib.rs 256-261: required_correction, in units of 1/GS.  sqrt(dry/wet) is
\* formed as sqrt(dry)/sqrt(wet) to stay within 32 bits.
RequiredCorrection(dry, wet) ==
    IF wet > RMS_EPSILON /\ dry > RMS_EPSILON
    THEN LET k == IF Max(dry, wet) <= 5000000 THEN 400
                  ELSE IF Max(dry, wet) <= 200000000 THEN 10 ELSE 1
         IN  RDiv(RSqrt(dry * k) * GS, RSqrt(wet * k))
    ELSE GS

\* lib.rs 242-274: process() up to the sample loop.  buffer.iter_samples()
\* yields one ChannelSamples per sample index, so the two next().unwrap()
\* take sample 0 and sample 1 of the block (every channel of each) and panic
\* on a block shorter than 2 samples.
BeginBlock(block, p) ==
    /\ pc = "idle"
    /\ initialized
    /\ params' = p
    /\ buffer' = block
    /\ block_avg_input' = 0
    /\ block_avg_output' = 0
    /\ total_gr_db' = 0
    /\ crossovers' = update_crossover_filters(crossovers, sample_rate, p.tilt_value)
    /\ required_correction' = RequiredCorrection(dry_rms_tracker, wet_rms_tracker)
    /\ loudness_correction_smoother' =
           Smoother_set_target(loudness_correction_smoother, sample_rate,
                               required_correction')
    /\ gr_factors_l' = [i \in Bands |-> GS]
    /\ gr_factors_r' = [i \in Bands |-> GS]
    /\ iter' = 0
    /\ pc' = IF Len(block[0]) < 2 THEN "panicked" ELSE "loop"
    /\ UNCHANGED <<sample_rate, bands, dry_rms_tracker, wet_rms_tracker, gr_meter_smoother,
                   gain_reduction_meter, editor_open, peak_meter, initialized, last_call,
                   band_signals_l, band_signals_r, dry_l, dry_r, wet_sum>>

\* The host calls process() with a buffer and the block's parameter values.
ProcessBegin(block, p) ==
    /\ calls < MaxCalls
    /\ calls' = calls + 1
    /\ BeginBlock(block, p)
    /\ UNCHANGED probe

\* A split that hands on the lowpass output as the band above the filter.
SplitStepLowpassOnly(st, i, f) ==
    [xo |-> [st.xo EXCEPT ![i] = f.self],
     last_l |-> f.out_l,
     last_r |-> f.out_r,
     sig_l |-> [st.sig_l EXCEPT ![i + 1] = f.out_l],
     sig_r |-> [st.sig_r EXCEPT ![i + 1] = f.out_r]]

\* lib.rs 306-313: what filter i of the split leaves: the band above it is
\* the signal before the filter minus the lowpass output, which goes on.
SplitStep(st, i, f) ==
    [xo |-> [st.xo EXCEPT ![i] = f.self],
     last_l |-> f.out_l,
     last_r |-> f.out_r,
     sig_l |-> [st.sig_l EXCEPT ![i + 1] = FSub(st.last_l, f.out_l)],
     sig_r |-> [st.sig_r EXCEPT ![i + 1] = FSub(st.last_r, f.out_r)]]

\* lib.rs 300-314 (B.1): the crossover split of one sample pair.  st is
\* [xo, last_l, last_r, sig_l, sig_r]; the filters run from index i down to 0
\* and band 0 is what the last lowpass leaves.
RECURSIVE SplitFrom(_, _)
SplitFrom(st, i) ==
    IF i < 0
    THEN [st EXCEPT !.sig_l[0] = st.last_l, !.sig_r[0] = st.last_r]
    ELSE SplitFrom(SplitStep(st, i, Biquad_process(st.xo[i], st.last_l, st.last_r)), i - 1)

\* A split whose 4 filters all take the input sample.
CrossoverSplitParallel(xo, sample_l, sample_r) ==
    LET f == [i \in Crossovers |-> Biquad_process(xo[i], Val(sample_l), Val(sample_r))]
    IN  [xo |-> [i \in Crossovers |-> f[i].self],
         last_l |-> f[0].out_l,
         last_r |-> f[0].out_r,
         sig_l |-> [i \in Bands |-> IF i = 0 THEN f[0].out_l
                                    ELSE FSub(Val(sample_l), f[i - 1].out_l)],
         sig_r |-> [i \in Bands |-> IF i = 0 THEN f[0].out_r
                                    ELSE FSub(Val(sample_r), f[i - 1].out_r)]]

CrossoverSplit(xo, sample_l, sample_r) ==
    SplitFrom([xo |-> xo, last_l |-> Val(sample_l), last_r |-> Val(sample_r),
               sig_l |-> [i \in Bands |-> Zero], sig_r |-> [i \in Bands |-> Zero]],
              MAX_BANDS - 2)

\* lib.rs 328-340 and 433-445: the band's centre frequency, in Hz.
BandCenterFreq(i, rate, tilt) ==
    LET shifted_crossovers ==
            [j \in Crossovers |-> shift_frequency(BASE_CROSSOVER_FREQS[j + 1], tilt)]
        lower_bound == IF i = 0 THEN 20 ELSE shifted_crossovers[i - 1]
        upper_bound == IF i = MAX_BANDS - 1 THEN rate \div 2 ELSE shifted_crossovers[i]
    IN  RSqrt(lower_bound * upper_bound)

\* An envelope follower that takes the release coefficient for a rising power
\* and the attack coefficient otherwise.
EnvelopeStepSwapped(envelope, band_power, attack, release) ==
    IF band_power > envelope
    THEN MulPS(PS - OneMinusExpNegInv(release), envelope)
         + MulPS(OneMinusExpNegInv(release), band_power)
    ELSE MulPS(PS - OneMinusExpNegInv(attack), envelope)
         + MulPS(OneMinusExpNegInv(attack), band_power)

\* lib.rs 350-358: one step of an envelope follower on band_power.
EnvelopeStep(envelope, band_power, attack, release) ==
    IF band_power > envelope
    THEN MulPS(PS - OneMinusExpNegInv(attack), envelope)
         + MulPS(OneMinusExpNegInv(attack), band_power)
    ELSE MulPS(PS - OneMinusExpNegInv(release), envelope)
         + MulPS(OneMinusExpNegInv(release), band_power)

\* A channel whose saturated sample is multiplied by the raw target.
ChannelGainOfTarget(envelope, sat, sm) ==
    [envelope |-> envelope, smoother |-> sm.self, gr |-> sm.value,
     out |-> MulG(sat, sm.self.target)]

\* lib.rs 382-389: the smoothed factor applied to the saturated sample.
ChannelGain(envelope, sat, sm) ==
    [envelope |-> envelope, smoother |-> sm.self, gr |-> sm.value,
     out |-> MulG(sat, sm.value)]

\* lib.rs 371-379: the target from the envelope, handed to the smoother.
ChannelTarget(envelope, smoother, sat, i, rate, amount, tilt) ==
    ChannelGain(envelope, sat,
                Smoother_next(Smoother_set_target(smoother, rate,
                    calculate_target_gr(i, amount, tilt, RSqrt(envelope)))))

\* lib.rs 350-389 for one channel of band i, given the saturated sample and
\* the time constants tc.
ChannelStep(envelope, smoother, sat, tc, i, rate, amount, tilt) ==
    ChannelTarget(EnvelopeStep(envelope, sat * sat, tc[1], tc[2]), smoother, sat,
                  i, rate, amount, tilt)

\* The band and its outputs, given what each channel computed.
BandResult(self, l, r) ==
    [self |-> [self EXCEPT !.envelope_l = l.envelope, !.envelope_r = r.envelope,
                           !.applied_gr_smoother_l = l.smoother,
                           !.applied_gr_smoother_r = r.smoother],
     gr_l |-> l.gr, gr_r |-> r.gr, out_l |-> l.out, out_r |-> r.out]

\* A band that follows and reduces the unsaturated signal and saturates last.
BandChannelsCompressFirst(self, i, sig_l, sig_r, tc, rate, amount, tilt) ==
    LET l == ChannelStep(self.envelope_l, self.applied_gr_smoother_l, sig_l,
                         tc, i, rate, amount, tilt)
        r == ChannelStep(self.envelope_r, self.applied_gr_smoother_r, sig_r,
                         tc, i, rate, amount, tilt)
    IN  BandResult(self, [l EXCEPT !.out = saturate(l.out, amount)],
                   [r EXCEPT !.out = saturate(r.out, amount)])

\* lib.rs 342-389 given the time constants.
BandChannels(self, i, sig_l, sig_r, tc, rate, amount, tilt) ==
    BandResult(self,
               ChannelStep(self.envelope_l, self.applied_gr_smoother_l,
                           saturate(sig_l, amount), tc, i, rate, amount, tilt),
               ChannelStep(self.envelope_r, self.applied_gr_smoother_r,
                           saturate(sig_r, amount), tc, i, rate, amount, tilt))

\* lib.rs 321-389: band i of stage B.2 on the band's two signals.
BandStep(self, i, sig_l, sig_r, rate, amount, tilt) ==
    BandChannels(self, i, sig_l, sig_r,
                 calculate_dynamic_time_constants(rate, BandCenterFreq(i, rate, tilt), i, amount),
                 rate, amount, tilt)

\* lib.rs 374-393: what band i leaves in the loop's accumulators.
BandPut(st, i, b) ==
    [bands |-> [st.bands EXCEPT ![i] = b.self],
     gr_l  |-> [st.gr_l EXCEPT ![i] = b.gr_l],
     gr_r  |-> [st.gr_r EXCEPT ![i] = b.gr_r],
     wet_l |-> st.wet_l + b.out_l,
     wet_r |-> st.wet_r + b.out_r,
     gr_db |-> st.gr_db + gain_to_db(RDiv(b.gr_l + b.gr_r, 2), GS)]

\* lib.rs 320-394: the band loop of stage B.2 from band i on.  st is
\* [bands, gr_l, gr_r, wet_l, wet_r, gr_db]: the bands' state, the gain
\* factors, the running wet sum and the running sum of the bands' dB.
RECURSIVE BandsFrom(_, _, _, _, _, _, _)
BandsFrom(st, i, sig_l, sig_r, rate, amount, tilt) ==
    IF i > MAX_BANDS - 1 THEN st
    ELSE BandsFrom(BandPut(st, i, BandStep(st.bands[i], i, sig_l[i][1], sig_r[i][1],
                                           rate, amount, tilt)),
                   i + 1, sig_l, sig_r, rate, amount, tilt)

\* lib.rs 408-454: the compensation EQ of band i: the gain it is given, its
\* new coefficients, and the wet pair passed through it.
CompensationGainDb(i, gr_l, gr_r, amount, tilt) ==
    LET tilt_effect == TiltEffect(tilt)
        band_tilt_factor ==
            Clamp(CASE i \in {0, 1} -> GS + Mul(tilt_effect, -6000, GS)
                    [] i = 2 -> GS
                    [] i \in {3, 4} -> GS + Mul(tilt_effect, 6000, GS)
                    [] OTHER -> GS,
                  4000, 16000)
        avg_gr_factor == RDiv(gr_l + gr_r, 2)
        gr_db_abs == Abs(gain_to_db(avg_gr_factor, GS))
    IN  Mul(RDiv(gr_db_abs * MAX_COMPENSATION_DB, 24 * DBS),
            Mul(amount, band_tilt_factor, GS), GS)

QFactor(i, amount, tilt) ==
    LET q_base == 7000 + 8 * Mul(amount, amount, GS)
        q_tilt_factor == GS + Mul(tilt * (i - 2), 4000, GS)
    IN  Clamp(Mul(q_base, q_tilt_factor, GS), 5000, 200000)

\* lib.rs 447-454: the band's EQ after the call f, and the wet pair it leaves.
EqPut(st, i, f) ==
    [bands |-> [st.bands EXCEPT ![i].compensation_eq = f.self],
     wet_l |-> f.out_l, wet_r |-> f.out_r]

\* st is [bands, wet_l, wet_r]; the EQs run serially from band i to band 4.
RECURSIVE EqFrom(_, _, _, _, _, _, _)
EqFrom(st, i, grl, grr, rate, amount, tilt) ==
    IF i > MAX_BANDS - 1 THEN st
    ELSE EqFrom(EqPut(st, i,
                      Biquad_process(
                          update_peaking(st.bands[i].compensation_eq, rate,
                                         BandCenterFreq(i, rate, tilt),
                                         QFactor(i, amount, tilt),
                                         CompensationGainDb(i, grl[i], grr[i], amount, tilt)),
                          st.wet_l, st.wet_r)),
                i + 1, grl, grr, rate, amount, tilt)

\* lib.rs 467-468: the equal-power mix of the dry and the wet sample, times
\* the output gain.
MixOut(dry, wet, mix, output) ==
    FScale(db_to_gain(output),
           FAdd(FScale(Cos(Mul(mix, FRAC_PI_2, GS)), dry),
                FScale(Sin(Mul(mix, FRAC_PI_2, GS)), wet)))

\* lib.rs 457-468 (B.4): loudness correction of the wet pair, its power, and
\* the samples written back.
Finish(it, l, r, wet_l, wet_r, p) ==
    [it EXCEPT !.wet_power = RDiv(wet_l[1] * wet_l[1] + wet_r[1] * wet_r[1], 2),
               !.out_l = MixOut(l, wet_l, p.mix, p.output),
               !.out_r = MixOut(r, wet_r, p.mix, p.output)]

\* lib.rs 408-460 (B.3): the serial EQ on the wet sum, then the correction.
AfterEq(it, eq, l, r, lc, p) ==
    Finish([it EXCEPT !.bands = eq.bands, !.loudness_correction_smoother = lc.self],
           l, r, FScale(lc.value, eq.wet_l), FScale(lc.value, eq.wet_r), p)

\* The wet sum of the bands without the denormal guard.
WetSumUnguarded(bl) == <<Val(bl.wet_l), Val(bl.wet_r)>>

\* lib.rs 392-399: the wet sum of the bands with the denormal guard added.
WetSum(bl) ==
    <<FAdd(Val(bl.wet_l), DENORMAL_GUARD), FAdd(Val(bl.wet_r), DENORMAL_GUARD)>>

EqStage(it, bl, wet_b, l, r, lcs, rate, p) ==
    AfterEq([it EXCEPT !.wet_sum = wet_b,
                       !.current_sample_gr_db = bl.gr_db,
                       !.gr_factors_l = bl.gr_l,
                       !.gr_factors_r = bl.gr_r],
            EqFrom([bands |-> bl.bands, wet_l |-> wet_b[1], wet_r |-> wet_b[2]],
                   0, bl.gr_l, bl.gr_r, rate, p.amount, p.tilt),
            l, r, Smoother_next(lcs), p)

\* lib.rs 320-399 (B.2): the band loop on the split's signals.
BandStage(it, bl, l, r, lcs, rate, p) ==
    EqStage(it, bl, WetSum(bl), l, r, lcs, rate, p)

AfterSplit(split, l, r, bs, grl, grr, lcs, rate, p) ==
    BandStage([crossovers |-> split.xo,
               bands |-> bs,
               loudness_correction_smoother |-> lcs,
               dry_l |-> l[1],
               dry_r |-> r[1],
               dry_power |-> RDiv(l[1] * l[1] + r[1] * r[1], 2),
               wet_power |-> 0,
               current_sample_gr_db |-> 0,
               gr_factors_l |-> grl,
               gr_factors_r |-> grr,
               band_signals_l |-> [i \in Bands |-> split.sig_l[i][1]],
               band_signals_r |-> [i \in Bands |-> split.sig_r[i][1]],
               wet_sum |-> <<Zero, Zero>>,
               out_l |-> l,
               out_r |-> r],
              BandsFrom([bands |-> bs, gr_l |-> grl, gr_r |-> grr,
                         wet_l |-> 0, wet_r |-> 0, gr_db |-> 0],
                        0, split.sig_l, split.sig_r, rate, p.amount, p.tilt),
              l, r, lcs, rate, p)

\* lib.rs 275-471: one iteration of the sample loop on the pair (l, r) and
\* the plugin's state; everything the iteration computes, as a record.
LoopBody(l, r, xo, bs, grl, grr, lcs, rate, p) ==
    AfterSplit(CrossoverSplit(xo, l[1], r[1]), l, r, bs, grl, grr, lcs, rate, p)

\* What an iteration that computed b leaves in the plugin and in the locals
\* of process().
StoreIteration(b) ==
    /\ crossovers' = b.crossovers
    /\ bands' = b.bands
    /\ loudness_correction_smoother' = b.loudness_correction_smoother
    /\ block_avg_input' = block_avg_input + b.dry_power
    /\ block_avg_output' = block_avg_output + b.wet_power
    /\ total_gr_db' = total_gr_db + b.current_sample_gr_db
    /\ gr_factors_l' = b.gr_factors_l
    /\ gr_factors_r' = b.gr_factors_r
    /\ band_signals_l' = b.band_signals_l
    /\ band_signals_r' = b.band_signals_r
    /\ dry_l' = b.dry_l
    /\ dry_r' = b.dry_r
    /\ wet_sum' = b.wet_sum
    /\ buffer' = [buffer EXCEPT ![iter][1] = b.out_l, ![iter][2] = b.out_r]

\* One iteration of `for (l, r) in left.iter_mut().zip(right.iter_mut())`:
\* left is sample 0 and right is sample 1 of the block, each iterated over
\* its channels, so iteration k takes l = channel k at sample 0 and
\* r = channel k at sample 1, and writes both back.
ProcessIteration ==
    /\ pc = "loop"
    /\ iter < 2
    /\ StoreIteration(LoopBody(buffer[iter][1], buffer[iter][2], crossovers, bands,
                               gr_factors_l, gr_factors_r, loudness_correction_smoother,
                               sample_rate, params))
    /\ iter' = iter + 1
    /\ UNCHANGED <<sample_rate, dry_rms_tracker, wet_rms_tracker, gr_meter_smoother,
                   gain_reduction_meter, editor_open, peak_meter, initialized, pc, calls,
                   last_call, params, required_correction, probe>>

\* lib.rs 484-493: the meter smoother is given the block's average, and its
\* next value is stored only while the editor is open.
UpdateMeter(gms) ==
    IF editor_open
    THEN /\ gr_meter_smoother' = Smoother_next(gms).self
         /\ gain_reduction_meter' = Smoother_next(gms).value
    ELSE /\ gr_meter_smoother' = gms
         /\ UNCHANGED gain_reduction_meter

\* A post-block update that leaves the trackers as they are.
KeepTrackers(block_size) == UNCHANGED <<dry_rms_tracker, wet_rms_tracker>>

\* lib.rs 480-481: the trackers take the block's mean power.
UpdateTrackers(block_size) ==
    /\ dry_rms_tracker' = RDiv(block_avg_input, block_size)
    /\ wet_rms_tracker' = RDiv(block_avg_output, block_size)

\* lib.rs 473-496: the post-block update, and the return of process().
ProcessEnd ==
    /\ pc = "loop"
    /\ iter = 2
    /\ LET block_size == Len(buffer[0])
       IN  IF block_size > 0
           THEN /\ UpdateTrackers(block_size)
                /\ UpdateMeter(Smoother_set_target(gr_meter_smoother, sample_rate,
                                                   RDiv(total_gr_db, block_size)))
           ELSE UNCHANGED <<dry_rms_tracker, wet_rms_tracker, gr_meter_smoother,
                            gain_reduction_meter>>
    /\ pc' = "idle"
    /\ last_call' = "process"
    /\ UNCHANGED <<sample_rate, crossovers, bands, loudness_correction_smoother,
                   editor_open, peak_meter, initialized, calls, locals, probe>>

Next ==
    \/ \E rate \in SampleRates : Initialize(rate)
    \/ Reset
    \/ ToggleEditor
    \/ \E block \in Blocks, p \in ParamSets : ProcessBegin(block, p)
    \/ ProcessIteration
    \/ ProcessEnd

Spec == Init /\ [][Next]_vars

\* ------------------------------------------------ functions under test

\* What the functions under test leave alone.
program == <<plugin, editor_open, peak_meter, initialized, pc, calls, last_call, locals>>

\* saturate is applied to a sample of the grid and to its negative.
InitSaturate ==
    /\ Default
    /\ params = Params(0, 0, 0, GS, 0)
    /\ probe \in { [fn |-> "saturate", sample |-> x, amount |-> a, done |-> FALSE,
                    pos |-> 0, neg |-> 0] : x \in SampleGrid, a \in AmountGrid }

ApplySaturate ==
    /\ probe.fn = "saturate"
    /\ ~probe.done
    /\ probe' = [probe EXCEPT !.done = TRUE,
                              !.pos = saturate(probe.sample, probe.amount),
                              !.neg = saturate(-probe.sample, probe.amount)]
    /\ UNCHANGED program

SpecSaturate == InitSaturate /\ [][ApplySaturate]_vars

\* calculate_target_gr is applied to a band, an Amount, a Tilt and an
\* envelope of the grids, and its result is handed to a gain-reduction
\* smoother as process() does (lib.rs 371-383); the smoother starts as
\* reset() leaves it.  bounded records that no envelope so far was above 1.0.
InitTargetGr ==
    /\ Default
    /\ params = Params(0, 0, 0, GS, 0)
    /\ probe \in { [fn |-> "calculate_target_gr", band_idx |-> i, amount |-> a, tilt |-> t,
                    envelope |-> 0, steps |-> 0, pending |-> FALSE, out |-> GS,
                    bounded |-> TRUE,
                    smoother |-> Smoother_reset(Smoother_new(1), GS), factor |-> GS]
                   : i \in Bands, a \in AmountGrid, t \in TiltGrid }

\* The smoother is given the target and stepped once.
Smoothed(pr, target, sm) ==
    [pr EXCEPT !.pending = FALSE, !.out = target, !.smoother = sm.self,
               !.factor = sm.value]

TakeEnvelope(e) ==
    /\ probe.fn = "calculate_target_gr"
    /\ ~probe.pending
    /\ probe.steps < MaxProbeSteps
    /\ probe' = [probe EXCEPT !.envelope = e, !.steps = probe.steps + 1,
                              !.pending = TRUE,
                              !.bounded = probe.bounded /\ e <= SS]
    /\ UNCHANGED program

TargetOf(pr) == calculate_target_gr(pr.band_idx, pr.amount, pr.tilt, pr.envelope)

ApplyTargetGr ==
    /\ probe.fn = "calculate_target_gr"
    /\ probe.pending
    /\ probe' = Smoothed(probe, TargetOf(probe),
                         Smoother_next(Smoother_set_target(probe.smoother, sample_rate,
                                                           TargetOf(probe))))
    /\ UNCHANGED program

NextTargetGr ==
    \/ \E e \in EnvelopeGrid : TakeEnvelope(e)
    \/ ApplyTargetGr

SpecTargetGr == InitTargetGr /\ [][NextTargetGr]_vars

\* ------------------------------------------------ a steady signal

\* Every block carries the same 2 samples of 0.5 on both channels.
SteadyBlock == BlockOf(<<500, 500, 500, 500>>, 2)

\* The fixed Amount and Tilt of a behaviour; Mix 1, Output 0 dB.
SteadyParamSets == { Params(0, 0, 0, GS, 0), Params(5000, 0, 0, GS, 0) }

InitSteady ==
    /\ Default
    /\ params \in SteadyParamSets
    /\ probe = NoProbe

\* The host initializes the plugin once, at 44.1 kHz.
SteadyInitialize == ~initialized /\ Initialize(44100)

\* The host calls process() on the steady block, again and again.  calls
\* counts the calls up to SettleCalls; the call that reaches SettleCalls
\* records the plugin as it finds it.
SteadyBegin ==
    /\ BeginBlock(SteadyBlock, params)
    /\ calls' = Min(calls + 1, SettleCalls)
    /\ probe' = IF calls + 1 = SettleCalls THEN [fn |-> "steady", plugin |-> plugin]
                ELSE probe

NextSteady ==
    \/ SteadyInitialize
    \/ SteadyBegin
    \/ ProcessIteration
    \/ ProcessEnd

SpecSteady == InitSteady /\ [][NextSteady]_vars

\* ------------------------------------------------ the editor's meter

\* A loud signal at full Amount, so that the bands are taken down and the
\* meter has something to show.
MeterBlock == BlockOf(Loud, 2)

MeterParams == Params(GS, 0, 0, GS, 0)

\* probe.before is the value the atomic held when the current call of
\* process() began.
InitMeter ==
    /\ Default
    /\ params = MeterParams
    /\ probe = [fn |-> "meter", before |-> 0]

MeterInitialize == ~initialized /\ Initialize(44100)

\* The audio thread calls process().
MeterBegin ==
    /\ calls < MaxMeterCalls
    /\ calls' = calls + 1
    /\ BeginBlock(MeterBlock, params)
    /\ probe' = [probe EXCEPT !.before = gain_reduction_meter]

\* An editor that loads the atomic and stores to it as well.
EditorLoadAndClear ==
    /\ editor_open
    /\ peak_meter' = gain_reduction_meter
    /\ gain_reduction_meter' = 0
    /\ UNCHANGED <<sample_rate, crossovers, bands, dry_rms_tracker, wet_rms_tracker,
                   loudness_correction_smoother, gr_meter_smoother, editor_open,
                   initialized, pc, calls, last_call, locals, probe>>

\* editor.rs 93-97: the editor thread redraws the PeakMeter, whose lens is
\* gr.load(Ordering::Relaxed); it may do so between any two steps of the
\* audio thread.
EditorLoad ==
    /\ editor_open
    /\ peak_meter' = gain_reduction_meter
    /\ UNCHANGED <<plugin, editor_open, initialized, pc, calls, last_call, locals, probe>>

NextMeter ==
    \/ MeterInitialize
    \/ ToggleEditor
    \/ MeterBegin
    \/ ProcessIteration
    \/ ProcessEnd
    \/ EditorLoad

SpecMeter == InitMeter /\ [][NextMeter]_vars

\* ------------------------------------------------ a biquad on its own

\* The arguments the filter's update functions are called with: a crossover
\* and a band-centre frequency, Q 0.7 and 2.0, gains of 0 and 3 dB.
BiquadFreqs == {150, 4000}

BiquadQs == {7000, 20000}

BiquadGains == {0, 3 * DBS}

\* probe.self is the filter, probe.before the filter before the last call,
\* probe.op the last call and probe.coefs the coefficients its arguments give.
InitBiquad ==
    /\ Default
    /\ params = Params(0, 0, 0, GS, 0)
    /\ probe = [fn |-> "biquad", op |-> "default", steps |-> 0, self |-> DefaultBiquad,
                before |-> DefaultBiquad, coefs |-> DefaultCoefficients]

\* The filter after a call named op that left it as new.
BiquadCalled(op, new, coefs) ==
    /\ probe.fn = "biquad"
    /\ probe.steps < MaxBiquadSteps
    /\ probe' = [probe EXCEPT !.op = op, !.steps = probe.steps + 1, !.self = new,
                              !.before = probe.self, !.coefs = coefs]
    /\ UNCHANGED program

BiquadProcess(sample_l, sample_r) ==
    BiquadCalled("process",
                 Biquad_process(probe.self, Val(sample_l), Val(sample_r)).self,
                 probe.self.coefs)

BiquadUpdateLowpass(rate, freq) ==
    BiquadCalled("update_lr_lowpass", update_lr_lowpass(probe.self, rate, freq),
                 calculate_lr_lowpass(rate, freq))

BiquadUpdatePeaking(rate, freq, q, gain_db) ==
    BiquadCalled("update_peaking", update_peaking(probe.self, rate, freq, q, gain_db),
                 calculate_peaking(rate, freq, q, gain_db))

BiquadReset == BiquadCalled("reset", Biquad_reset(probe.self), probe.self.coefs)

NextBiquad ==
    \/ \E x \in {-1000, 500} : BiquadProcess(x, -x)
    \/ \E rate \in SampleRates, freq \in BiquadFreqs : BiquadUpdateLowpass(rate, freq)
    \/ \E freq \in BiquadFreqs, q \in BiquadQs, g \in BiquadGains :
           BiquadUpdatePeaking(44100, freq, q, g)
    \/ BiquadReset

SpecBiquad == InitBiquad /\ [][NextBiquad]_vars

\* ------------------------------------------------------------ properties

\* ------------------------------------------------ the gain computer's knee

\* calculate_target_gr is applied to a band, an Amount, a Tilt and a detector
\* level from 0 to MaxKneeEnvelope/1000, which spans the thresholds of all
\* bands at Amount 0 (-12.5 dB to -7.5 dB).  The probe records the gain
\* computer's gr_db and the factor returned.
InitKnee ==
    /\ Default
    /\ params = Params(0, 0, 0, GS, 0)
    /\ probe \in { [fn |-> "knee", band_idx |-> i, amount |-> a, tilt |-> t, envelope |-> e,
                    done |-> FALSE, gr_db |-> [nan |-> FALSE, v |-> 0], target |-> GS]
                   : i \in Bands, a \in AmountGrid, t \in TiltGrid,
                     e \in 0 .. MaxKneeEnvelope }

ApplyKnee ==
    /\ probe.fn = "knee"
    /\ ~probe.done
    /\ probe' = [probe EXCEPT
                    !.done = TRUE,
                    !.gr_db = GrDb(probe.band_idx, probe.amount, probe.tilt, probe.envelope),
                    !.target = calculate_target_gr(probe.band_idx, probe.amount, probe.tilt,
                                                   probe.envelope)]
    /\ UNCHANGED program

SpecKnee == InitKnee /\ [][ApplyKnee]_vars

\* The sum of a band array.
SumBands(f) == f[0] + f[1] + f[2] + f[3] + f[4]

\* An iteration of the sample loop has run in the current call of process().
Iterated == pc = "loop" /\ iter > 0

\* C1: the 5 band signals of the crossover split sum, per channel, to the
\* input sample, whatever the filters' coefficients and states are.
C1_BandsSumToInput ==
    Iterated => /\ SumBands(band_signals_l) = dry_l
                /\ SumBands(band_signals_r) = dry_r

\* A split of a non-zero pair in a second call, by filters that carry
\* state, with signal in the three highest bands.
C1_Witness ==
    /\ Iterated
    /\ calls = 2
    /\ dry_l # 0
    /\ dry_r # 0
    /\ band_signals_l[2] # 0
    /\ band_signals_l[3] # 0
    /\ band_signals_l[4] # 0
    /\ crossovers[3].state_l.z1 # Zero

\* The wet sum the bands give when the saturator has drive 0.1: the sum of
\* the saturated band signals times the bands' factors, plus the guard.
WetOfBands(sig, gr) ==
    FAdd(Val(MulG(Waveshape(1000, sig[0], 0), gr[0]) + MulG(Waveshape(1000, sig[1], 0), gr[1])
             + MulG(Waveshape(1000, sig[2], 0), gr[2]) + MulG(Waveshape(1000, sig[3], 0), gr[3])
             + MulG(Waveshape(1000, sig[4], 0), gr[4])),
         DENORMAL_GUARD)

\* The band's compensation EQ has the coefficients of a 0 dB peaking filter.
UnityEq(i) ==
    LET c == bands[i].compensation_eq.coefs
    IN  c.b0 = GS /\ c.b1 = c.a1 /\ c.b2 = c.a2

Cleared(bq) ==
    /\ bq.state_l = [z1 |-> Zero, z2 |-> Zero]
    /\ bq.state_r = [z1 |-> Zero, z2 |-> Zero]

\* A smoother holds the value v: it is at v and stays there.
Holds(sm, v) == sm.current = v /\ sm.target = v /\ sm.steps_left = 0

\* C4: after reset() every crossover and compensation-EQ biquad has
\* z1 = z2 = 0 on both channels, every envelope is 0, and every
\* gain-reduction smoother and the loudness smoother hold 1.0.
C4_ResetIsNeutral ==
    (pc = "idle" /\ last_call = "reset") =>
        /\ \A j \in Crossovers : Cleared(crossovers[j])
        /\ \A i \in Bands :
            /\ Cleared(bands[i].compensation_eq)
            /\ bands[i].envelope_l = 0
            /\ bands[i].envelope_r = 0
            /\ Holds(bands[i].applied_gr_smoother_l, GS)
            /\ Holds(bands[i].applied_gr_smoother_r, GS)
        /\ Holds(loudness_correction_smoother, GS)

\* reset() has returned after a call of process() on a signal.
C4_Witness ==
    /\ pc = "idle"
    /\ last_call = "reset"
    /\ calls > 0
    /\ block_avg_output > 0
    /\ wet_sum[1][1] # 0

\* The loop has run over all of a silent 2-sample block, in a call of
\* process() made right after reset() or initialize().
SilentAfterReset ==
    /\ pc = "loop"
    /\ iter = 2
    /\ last_call \in {"reset", "initialize"}
    /\ Len(buffer[0]) = 2
    /\ block_avg_input = 0

\* What the denormal guard leaves in an output sample: 1e-20 times the wet
\* gain sin(mix pi/2) times the output gain.
GuardResidue(p) ==
    MulG(MulG(DENORMAL_GUARD[2], Sin(Mul(p.mix, FRAC_PI_2, GS))), db_to_gain(p.output))

C7_Step ==
    /\ (pc = "loop" /\ pc' = "idle") =>
           /\ dry_rms_tracker' = RDiv(block_avg_input, Len(buffer[0]))
           /\ wet_rms_tracker' = RDiv(block_avg_output, Len(buffer[0]))
    /\ pc' \in {"loop", "panicked"} =>
           /\ dry_rms_tracker' = dry_rms_tracker
           /\ wet_rms_tracker' = wet_rms_tracker
           /\ required_correction' = RequiredCorrection(dry_rms_tracker, wet_rms_tracker)
           /\ loudness_correction_smoother'.target = required_correction'

\* C7: the RMS trackers are written once per process() call, after the last
\* sample, and the loudness target of a block comes only from the trackers
\* the block before it (or reset) wrote.
C7_OneBlockLatency == [][C7_Step]_vars

\* A second call whose target comes from the trackers of the first, while
\* its own samples already have another power.
C7_Witness ==
    /\ pc = "loop"
    /\ iter = 2
    /\ calls = 2
    /\ required_correction # GS
    /\ dry_rms_tracker > RMS_EPSILON
    /\ RDiv(block_avg_input, Len(buffer[0])) # dry_rms_tracker

\* t is sqrt(dry / wet) in units of 1/GS, to the precision of the trackers:
\* in dB, twice the level of t is the level of dry less the level of wet,
\* within 0.4 dB.
IsSqrtOfRatio(t, dry, wet) ==
    Abs(2 * gain_to_db(t, GS) - (gain_to_db(dry, 1) - gain_to_db(wet, 1))) <= 40

\* C8: the loudness target is sqrt(dry_tracker / wet_tracker) when both
\* trackers are above 1e-6 and exactly 1.0 otherwise, so no division by a
\* wet tracker of 0 is made.
C8_TargetIsSqrtOrUnity ==
    pc = "loop" =>
        /\ loudness_correction_smoother.target = required_correction
        /\ IF wet_rms_tracker > RMS_EPSILON /\ dry_rms_tracker > RMS_EPSILON
           THEN IsSqrtOfRatio(required_correction, dry_rms_tracker, wet_rms_tracker)
           ELSE required_correction = GS

\* A block whose target is above 2, from trackers above the floor.
C8_Witness ==
    /\ pc = "loop"
    /\ wet_rms_tracker > RMS_EPSILON
    /\ dry_rms_tracker > 4 * wet_rms_tracker
    /\ required_correction > 2 * GS

\* A step of initialize(): the host call returns at "idle" and is recorded.
InitializeStep ==
    /\ pc = "idle"
    /\ pc' = "idle"
    /\ last_call' = "initialize"
    /\ editor_open' = editor_open

\* What a step of initialize() leaves is what reset() leaves of the state
\* before it, at the rate the step set.
C10_Step ==
    InitializeStep =>
        LET r == ResetFields(crossovers, bands, loudness_correction_smoother,
                             gr_meter_smoother)
        IN  /\ sample_rate' \in SampleRates
            /\ crossovers' = r.crossovers
            /\ bands' = r.bands
            /\ loudness_correction_smoother' = r.loudness_correction_smoother
            /\ gr_meter_smoother' = r.gr_meter_smoother
            /\ dry_rms_tracker' = r.dry_rms_tracker
            /\ wet_rms_tracker' = r.wet_rms_tracker
            /\ \A j \in Crossovers : Cleared(crossovers'[j])
            /\ \A i \in Bands : bands'[i].envelope_l = 0 /\ bands'[i].envelope_r = 0

\* C10: the state after initialize(rate) is the state after assigning
\* sample_rate = rate and calling reset().
C10_InitializeIsReset == [][C10_Step]_vars

\* initialize() at 48 kHz has returned after a call of process() on a signal
\* at another rate.
C10_Witness ==
    /\ pc = "idle"
    /\ last_call = "initialize"
    /\ sample_rate = 48000
    /\ calls > 0
    /\ block_avg_output > 0
    /\ Cleared(crossovers[0])

\* calculate_target_gr has been applied.
TargetGrApplied == probe.fn = "calculate_target_gr" /\ probe.steps > 0 /\ ~probe.pending

\* C3 as stated: for every band, Amount, Tilt and envelope >= 0 the factor
\* calculate_target_gr returns, and the smoothed factor, are in (0,1].
C3_FactorIsPositive ==
    TargetGrApplied => probe.out \in 1 .. GS /\ probe.factor \in 1 .. GS

\* C3: the factor calculate_target_gr returns is in [0,1]; it is above 0
\* for every envelope up to 1.0, the most process() can present, and the
\* smoothed factor of a band whose envelopes stay there is in (0,1].
C3_FactorIsInUnitRange ==
    TargetGrApplied =>
        /\ probe.out \in 0 .. GS
        /\ probe.factor \in 0 .. GS
        /\ probe.envelope <= SS => probe.out \in 1 .. GS
        /\ probe.bounded => probe.factor \in 1 .. GS

\* A band is taken down by a factor below 1, and a later envelope above
\* 1.0 gets the factor 0.
C3_Witness ==
    /\ TargetGrApplied
    /\ probe.steps = 2
    /\ probe.out = 0
    /\ probe.factor \in 1 .. (GS - 1)
    /\ ~probe.bounded

\* C9: saturate is odd-symmetric, also where the final clamp is active.
C9_SaturateIsOdd ==
    (probe.fn = "saturate" /\ probe.done) => probe.neg = -probe.pos

\* saturate has clamped a sample above 1.0 to one bound and its negative to
\* the other.
C9_Witness ==
    /\ probe.fn = "saturate"
    /\ probe.done
    /\ probe.sample > SS
    /\ Abs(probe.pos) = SS
    /\ probe.neg = -probe.pos

\* The power wet is within 0.5 dB of the power dry.
WithinHalfDb(wet, dry) == 1000 * wet >= 891 * dry /\ 1000 * wet <= 1122 * dry

\* The tracked wet power is within 0.5 dB of the tracked dry power.
RatioWithinHalfDb == WithinHalfDb(wet_rms_tracker, dry_rms_tracker)

\* process() has returned and left the plugin exactly as call number
\* SettleCalls found it: the same steady block takes the plugin through the
\* same states again, so this state comes back for ever.
Recurs ==
    /\ probe.fn = "steady"
    /\ pc = "idle"
    /\ plugin = probe.plugin

\* C6 as stated: on a steady signal at fixed Amount and Tilt, repeated
\* process() calls bring the ratio of tracked wet power to tracked dry
\* power to within 0.5 dB of 1 and keep it there, so a state the run keeps
\* coming back to has the ratio within 0.5 dB.
C6_RatioConverges == Recurs => RatioWithinHalfDb

\* The audio side of the state: everything but what the editor holds.
audio == <<plugin, initialized, pc, calls, last_call, locals>>

\* A step stores to the atomic only as the last step of process(), after the
\* sample loop; while a call runs the atomic holds what it held when the
\* call began; a step that changes what the editor shows is a load, which
\* gives the editor the atomic's value and leaves the audio side alone.
C11_Step ==
    /\ gain_reduction_meter' # gain_reduction_meter =>
           pc = "loop" /\ iter = 2 /\ pc' = "idle" /\ editor_open
    /\ pc' = "loop" => gain_reduction_meter' = probe'.before
    /\ peak_meter' # peak_meter =>
           /\ peak_meter' = gain_reduction_meter
           /\ peak_meter' = probe.before \/ pc = "idle"
           /\ audio' = audio

\* C11: process() stores to gain_reduction_meter at most once, after the
\* sample loop; the editor only loads it, and a load gives the value of the
\* block before while a call runs and the value of the call once it has
\* stored; loads leave the audio state as it is.
C11_SingleWriterMeter == [][C11_Step]_vars

\* The editor still shows the value of the block before, which is not 0,
\* after the call has stored another.
C11_Witness ==
    /\ pc = "idle"
    /\ last_call = "process"
    /\ editor_open
    /\ peak_meter # 0
    /\ peak_meter = probe.before
    /\ gain_reduction_meter # peak_meter

\* C12: update_lr_lowpass and update_peaking replace the whole coefficient
\* set and leave state_l and state_r as they are; Biquad::reset zeroes both
\* states and leaves the coefficients as they are.
C12_CoefficientsAndStateDecoupled ==
    probe.fn = "biquad" =>
        /\ probe.op \in {"update_lr_lowpass", "update_peaking"} =>
               /\ probe.self.coefs = probe.coefs
               /\ probe.self.state_l = probe.before.state_l
               /\ probe.self.state_r = probe.before.state_r
        /\ probe.op = "reset" =>
               /\ probe.self.coefs = probe.before.coefs
               /\ probe.self.state_l = DefaultBiquadState
               /\ probe.self.state_r = DefaultBiquadState

\* A filter with coefficients and memory has been reset, and a filter with
\* memory has been given other coefficients.
C12_Witness ==
    /\ probe.fn = "biquad"
    /\ \/ /\ probe.op = "reset"
          /\ probe.before.state_l.z1 # Zero
          /\ probe.before.state_r.z2 # Zero
          /\ probe.self.coefs # DefaultCoefficients
       \/ /\ probe.op = "update_peaking"
          /\ probe.before.state_l.z1 # Zero
          /\ probe.self.coefs # probe.before.coefs
          /\ probe.before.coefs # DefaultCoefficients

\* C13 as stated: process() handles every sample of the block exactly once,
\* left-channel sample k with right-channel sample k: when it returns, the
\* sample loop has run once for each sample of a channel.
C13_EverySampleHandledOnce ==
    (pc = "idle" /\ last_call = "process") => iter = Len(buffer[0])

\* C14 as stated: saturate(x, amount) is the clamped cubic waveshaper with
\* drive = amount*0.9 + 0.1.
C14_SaturateLinearDrive ==
    (probe.fn = "saturate" /\ probe.done) =>
        probe.pos = Waveshape(Mul(probe.amount, 9000, GS) + 1000, probe.sample, probe.amount)

\* C14: saturate(x, amount) is clamp((drive*x - (drive^2/3)*x^3) * (1 - amount*0.3), -1, 1)
\* with drive = amount^1.5 * 0.9 + 0.1, which is amount*0.9 + 0.1 only at
\* amount 0 and amount 1.
C14_SaturateFormula ==
    (probe.fn = "saturate" /\ probe.done) =>
        /\ probe.pos = Waveshape(Mul(Mul(probe.amount, SqrtG(probe.amount), GS), 9000, GS) + 1000,
                                 probe.sample, probe.amount)
        /\ probe.amount \in {0, GS} =>
               probe.pos = Waveshape(Mul(probe.amount, 9000, GS) + 1000, probe.sample, probe.amount)

\* saturate was applied at amount 0.5 to a sample the clamp leaves alone, and
\* the result is below what the linear drive 0.55 would give.
C14_Witness ==
    /\ probe.fn = "saturate"
    /\ probe.done
    /\ probe.amount = GS \div 2
    /\ probe.sample = SS \div 2
    /\ probe.pos > 0
    /\ probe.pos < Waveshape(5500, probe.sample, probe.amount)

\* The values the two smoothers of each band hold after their call of next.
SmoothedL(bs) == [i \in Bands |-> bs[i].applied_gr_smoother_l.current]

SmoothedR(bs) == [i \in Bands |-> bs[i].applied_gr_smoother_r.current]

\* The sum over the bands of the saturated band signal times the factor gr.
WetOfSaturated(sig, gr, amount) ==
    FAdd(Val(MulG(saturate(sig[0], amount), gr[0]) + MulG(saturate(sig[1], amount), gr[1])
             + MulG(saturate(sig[2], amount), gr[2]) + MulG(saturate(sig[3], amount), gr[3])
             + MulG(saturate(sig[4], amount), gr[4])),
         DENORMAL_GUARD)

\* The dB a sample adds to the block's gain-reduction sum, from the factors.
SampleGrDb(grl, grr) ==
    gain_to_db(RDiv(grl[0] + grr[0], 2), GS) + gain_to_db(RDiv(grl[1] + grr[1], 2), GS)
    + gain_to_db(RDiv(grl[2] + grr[2], 2), GS) + gain_to_db(RDiv(grl[3] + grr[3], 2), GS)
    + gain_to_db(RDiv(grl[4] + grr[4], 2), GS)

\* An iteration of the sample loop: the raw targets are in the smoothers,
\* and the factors in the band signal, in the meter's sum and in the EQ gain
\* are the values the smoothers returned.
C15_Step ==
    (pc = "loop" /\ iter' = iter + 1) =>
        /\ \A i \in Bands :
               /\ bands'[i].applied_gr_smoother_l.target
                      = calculate_target_gr(i, params.amount, params.tilt,
                                            RSqrt(bands'[i].envelope_l))
               /\ bands'[i].applied_gr_smoother_r.target
                      = calculate_target_gr(i, params.amount, params.tilt,
                                            RSqrt(bands'[i].envelope_r))
               /\ bands'[i].compensation_eq.coefs
                      = calculate_peaking(sample_rate, BandCenterFreq(i, sample_rate, params.tilt),
                                          QFactor(i, params.amount, params.tilt),
                                          CompensationGainDb(i, SmoothedL(bands')[i],
                                                             SmoothedR(bands')[i],
                                                             params.amount, params.tilt))
        /\ gr_factors_l' = SmoothedL(bands')
        /\ gr_factors_r' = SmoothedR(bands')
        /\ wet_sum'[1] = WetOfSaturated(band_signals_l', SmoothedL(bands'), params.amount)
        /\ wet_sum'[2] = WetOfSaturated(band_signals_r', SmoothedR(bands'), params.amount)
        /\ total_gr_db' = total_gr_db + SampleGrDb(SmoothedL(bands'), SmoothedR(bands'))

\* C15: in every sample, for every band and channel, the raw target of
\* calculate_target_gr goes only to the band's smoother, and the factor
\* multiplied into the band signal, the value added to the block's
\* gain-reduction sum and the value behind the compensation-EQ gain are the
\* value the smoother returned for that sample.
C15_OnlySmoothedValueUsed == [][C15_Step]_vars

\* An iteration at Amount > 0 has left a band whose smoothed factor is below
\* 1.0 and still above its raw target, with a compensation EQ that boosts.
C15_Witness ==
    /\ Iterated
    /\ params.amount > 0
    /\ \E i \in Bands :
           /\ gr_factors_l[i] < GS
           /\ gr_factors_l[i] > bands[i].applied_gr_smoother_l.target
           /\ ~UnityEq(i)
    /\ total_gr_db < 0

\* The smoother after it was given the target of the envelope and stepped.
SmoothedToward(smoother, i, envelope) ==
    Smoother_next(Smoother_set_target(smoother, sample_rate,
        calculate_target_gr(i, params.amount, params.tilt, RSqrt(envelope)))).self

\* Band i in an iteration step, given its time constants and its two
\* saturated signals: the envelopes follow the power of the saturated
\* signals, and the smoothers are stepped toward the targets of the new
\* envelopes.
BandInOrder(i, tc, sat_l, sat_r) ==
    /\ bands'[i].envelope_l = EnvelopeStep(bands[i].envelope_l, sat_l * sat_l, tc[1], tc[2])
    /\ bands'[i].envelope_r = EnvelopeStep(bands[i].envelope_r, sat_r * sat_r, tc[1], tc[2])
    /\ bands'[i].applied_gr_smoother_l
           = SmoothedToward(bands[i].applied_gr_smoother_l, i, bands'[i].envelope_l)
    /\ bands'[i].applied_gr_smoother_r
           = SmoothedToward(bands[i].applied_gr_smoother_r, i, bands'[i].envelope_r)

\* An iteration of the sample loop: the saturator is given the band signals
\* of the split, and the factors multiply what the saturator returned.
C16_Step ==
    (pc = "loop" /\ iter' = iter + 1) =>
        /\ \A i \in Bands :
               BandInOrder(i,
                           calculate_dynamic_time_constants(
                               sample_rate, BandCenterFreq(i, sample_rate, params.tilt),
                               i, params.amount),
                           saturate(band_signals_l'[i], params.amount),
                           saturate(band_signals_r'[i], params.amount))
        /\ wet_sum'[1] = WetOfSaturated(band_signals_l', gr_factors_l', params.amount)
        /\ wet_sum'[2] = WetOfSaturated(band_signals_r', gr_factors_r', params.amount)

\* C16: within each sample and band the band signal is saturated first, the
\* envelope follows the saturated signal, the gain-reduction factor is
\* computed from that envelope and smoothed, and the smoothed factor then
\* multiplies the saturated signal; the saturator is given the band signal
\* of the split, never a gain-reduced one.
C16_SaturateThenCompress == [][C16_Step]_vars

\* An iteration has left a band with an envelope and a factor below 1.0
\* whose result would differ had the factor been applied before the
\* saturator.
C16_Witness ==
    /\ Iterated
    /\ \E i \in Bands :
           /\ bands[i].envelope_l > 0
           /\ gr_factors_l[i] < GS
           /\ saturate(band_signals_l[i], params.amount) # band_signals_l[i]
           /\ saturate(MulG(band_signals_l[i], gr_factors_l[i]), params.amount)
                  # MulG(saturate(band_signals_l[i], params.amount), gr_factors_l[i])

\* Filter i of the split in an iteration step, given its input pair and what
\* its call f returned: the filter is left as f leaves it, band i+1 is the
\* input less the output, and the output is the input of filter i-1, or
\* band 0 after filter 0.
RECURSIVE CascadeFrom(_, _, _, _)
CascadeFrom(i, in_l, in_r, f) ==
    /\ crossovers'[i] = f.self
    /\ band_signals_l'[i + 1] = FSub(in_l, f.out_l)[1]
    /\ band_signals_r'[i + 1] = FSub(in_r, f.out_r)[1]
    /\ IF i = 0
       THEN band_signals_l'[0] = f.out_l[1] /\ band_signals_r'[0] = f.out_r[1]
       ELSE CascadeFrom(i - 1, f.out_l, f.out_r,
                        Biquad_process(crossovers[i - 1], f.out_l, f.out_r))

\* An iteration of the sample loop: the cascade starts at filter 3 on the
\* dry pair.
C17_Step ==
    (pc = "loop" /\ iter' = iter + 1) =>
        CascadeFrom(MAX_BANDS - 2, Val(dry_l'), Val(dry_r'),
                    Biquad_process(crossovers[MAX_BANDS - 2], Val(dry_l'), Val(dry_r')))

\* C17: the crossover stage runs the 4 lowpass filters from index 3 down to
\* index 0, each on the lowpass output of the one before it and filter 3 on
\* the input sample; band i+1 is the input of filter i minus its output,
\* and band 0 is the output of filter 0.
C17_CrossoverCascade == [][C17_Step]_vars

\* An iteration of a second call, with state in filters 3, 2 and 1 of the
\* cascade and signal in the band above each of them and in band 1, which
\* filter 1 hands on to filter 0.
C17_Witness ==
    /\ Iterated
    /\ calls = 2
    /\ \A i \in 1 .. 3 : crossovers[i].state_l.z1 # Zero
    /\ \A i \in 1 .. 4 : band_signals_l[i] # 0
    /\ band_signals_l[4] # dry_l

\* new is (1 - alpha) * envelope + alpha * power, alpha in units of 1/PS.
Follows(new, envelope, power, alpha) ==
    new = MulPS(PS - alpha, envelope) + MulPS(alpha, power)

\* An envelope goes from envelope to new on a sample of the given power:
\* with the attack coefficient exactly when the power is above the
\* envelope, and to a value >= 0 between the envelope and the power.
EnvelopeFollows(new, envelope, power, tc) ==
    /\ Follows(new, envelope, power,
               IF power > envelope THEN OneMinusExpNegInv(tc[1])
               ELSE OneMinusExpNegInv(tc[2]))
    /\ new >= 0
    /\ new >= Min(envelope, power)
    /\ new <= Max(envelope, power)

\* The two envelopes of band i in an iteration step, each from its own
\* channel's saturated sample.
BandEnvelopesFollow(i, tc, sat_l, sat_r) ==
    /\ EnvelopeFollows(bands'[i].envelope_l, bands[i].envelope_l, sat_l * sat_l, tc)
    /\ EnvelopeFollows(bands'[i].envelope_r, bands[i].envelope_r, sat_r * sat_r, tc)

\* A step of the program: an iteration moves every envelope as a follower
\* does, and whatever the step, no envelope is left below 0.
C18_Step ==
    /\ (pc = "loop" /\ iter' = iter + 1) =>
           \A i \in Bands :
               BandEnvelopesFollow(i,
                                   calculate_dynamic_time_constants(
                                       sample_rate, BandCenterFreq(i, sample_rate, params.tilt),
                                       i, params.amount),
                                   saturate(band_signals_l'[i], params.amount),
                                   saturate(band_signals_r'[i], params.amount))
    /\ \A i \in Bands : bands'[i].envelope_l >= 0 /\ bands'[i].envelope_r >= 0

RECURSIVE EqCadence(_, _, _, _)
EqApplied(i, center, f) ==
    /\ bands'[i].compensation_eq = f.self
    /\ BandEnvelopesFollow(i,
                           calculate_dynamic_time_constants(sample_rate, center, i,
                                                            params.amount),
                           saturate(band_signals_l'[i], params.amount),
                           saturate(band_signals_r'[i], params.amount))
    /\ i < MAX_BANDS - 1 =>
           EqCadence(i + 1, BandCenterFreq(i + 1, sample_rate, params.tilt), f.out_l, f.out_r)

EqCadence(i, center, in_l, in_r) ==
    EqApplied(i, center,
              Biquad_process(
                  [bands[i].compensation_eq EXCEPT !.coefs =
                      calculate_peaking(sample_rate, center,
                                        QFactor(i, params.amount, params.tilt),
                                        CompensationGainDb(i, gr_factors_l'[i], gr_factors_r'[i],
                                                           params.amount, params.tilt))],
                  in_l, in_r))

\* The crossover coefficients of the block's unsmoothed tilt value.
BlockCrossoverCoefs(j) ==
    calculate_lr_lowpass(sample_rate,
                         shift_frequency(BASE_CROSSOVER_FREQS[j + 1], params'.tilt_value))

\* A step of process(): entering it writes the crossover coefficients, an
\* iteration or the return leaves them, and an iteration rewrites the
\* coefficients of every compensation EQ before the EQ runs.
C19_Step ==
    /\ (pc = "idle" /\ pc' \in {"loop", "panicked"}) =>
           \A j \in Crossovers :
               /\ crossovers'[j].coefs = BlockCrossoverCoefs(j)
               /\ crossovers'[j].state_l = crossovers[j].state_l
               /\ crossovers'[j].state_r = crossovers[j].state_r
    /\ pc = "loop" =>
           \A j \in Crossovers : crossovers'[j].coefs = crossovers[j].coefs
    /\ (pc = "loop" /\ iter' = iter + 1) =>
           EqCadence(0, BandCenterFreq(0, sample_rate, params.tilt), wet_sum'[1], wet_sum'[2])

\* C19: the 4 crossover coefficient sets are written once per process()
\* call, before the first sample, from the block's tilt value, and stay as
\* they are to the end of the call; the 5 compensation-EQ coefficient sets
\* are rewritten in every iteration of the sample loop, before the wet pair
\* passes through the EQ, from the tilt and the band bounds that gave the
\* sample's envelope time constants.
C19_CoefficientCadence == [][C19_Step]_vars

\* The second iteration of a block whose smoothed tilt is not the tilt value
\* the crossovers were given: the crossovers have the coefficients of the
\* tilt value, and an EQ of a band whose centre the smoothed tilt moved has
\* a boost and state from the iteration before.
C19_Witness ==
    /\ pc = "loop"
    /\ iter = 2
    /\ params.tilt # params.tilt_value
    /\ crossovers[0].coefs
           # calculate_lr_lowpass(sample_rate,
                                  shift_frequency(BASE_CROSSOVER_FREQS[1], params.tilt))
    /\ crossovers[3].state_l.z1 # Zero
    /\ \E i \in Bands :
           /\ ~UnityEq(i)
           /\ bands[i].compensation_eq.state_l.z1 # Zero
           /\ BandCenterFreq(i, sample_rate, params.tilt)
                  # BandCenterFreq(i, sample_rate, params.tilt_value)

\* The gain computer was applied at Amount 0.
KneeAppliedAtZero == probe.fn = "knee" /\ probe.done /\ probe.amount = 0

\* input_db - threshold_db of the probe, in units of 1/DBS.
AboveThreshold ==
    gain_to_db(probe.envelope, SS) - ThresholdDb(probe.band_idx, probe.amount, probe.tilt)

\* C20: at Amount = 0 the knee is 0 dB wide and calculate_target_gr is a
\* hard-knee compressor for every band and tilt: the factor is exactly 1.0
\* whenever input_db <= threshold_db, also at input_db = threshold_db, where
\* the knee branch gives 0/0 = NaN and min(0.0) turns it into 0 dB; above
\* the threshold it is the factor of the hard ratio, and it is always in
\* (0, 1].
C20_ZeroWidthKnee ==
    KneeAppliedAtZero =>
        /\ KneeDb(probe.amount) = 0
        /\ probe.target \in 1 .. GS
        /\ AboveThreshold <= 0 => probe.target = GS
        /\ probe.gr_db.nan <=> AboveThreshold = 0
        /\ AboveThreshold > 0 =>
               probe.target = db_to_gain(Mul(-AboveThreshold, Slope(probe.amount), GS))

\* The gain computer was applied at Amount 0 to a level exactly at the
\* threshold: its gr_db was NaN and the factor returned is 1.0.
C20_Witness ==
    /\ KneeAppliedAtZero
    /\ AboveThreshold = 0
    /\ probe.gr_db.nan
    /\ probe.target = GS

====
